---- MODULE Spec2Model ----
(***************************************************************************)
(* A model of devis_app.py, the quotation assistant for polyurethane foam  *)
(* insulation (src/devis_app.py).                                          *)
(*                                                                         *)
(* Numbers.  The program computes with Python floats; the model computes   *)
(* with exact decimal fixed-point integers, one unit per kind of quantity: *)
(*   surface        1/SurfScale m2   (SurfScale = 10^MaxLen)               *)
(*   thickness      1/100 cm                                               *)
(*   unit price     1/100 EUR per cm and m2                                *)
(*   money          1/MoneyScale EUR (MoneyScale = 100 * 100)              *)
(*   resistance     1/10 m2.K/W                                            *)
(*   lambda         1/10000 W/m.K                                          *)
(*   tax rate       1/1000                                                 *)
(*   tax amount and tax-inclusive total: a record [units, mills] worth     *)
(*                  units + mills/1000 money units                         *)
(* Binary rounding error of the floats is therefore not modelled.          *)
(*                                                                         *)
(* Text.  A Python str is a tuple of one-character strings, so that split, *)
(* strip, replace, float() and the substring test are computed character   *)
(* by character.  Zone and foam names are only compared for equality and   *)
(* stay TLA+ strings.                                                      *)
(***************************************************************************)
EXTENDS Integers, Sequences, FiniteSets, TLC

VARIABLES
    value,                \* argument handed to parse_surface_input (SpecParse)
    result,               \* what parse_surface_input returned for it
    distance,             \* widget: one-way distance, km
    extra_global,         \* widget: global protections charge, EUR
    lines,                \* widgets of the lines: zone -> sequence of line records
    tva_simple,           \* widget: selectbox "TVA pour PDF simple"
    tva_pro,              \* widget: selectbox "TVA pour PDF pro"
    travel_cost,          \* locals of the last run_app pass
    total_material_cost,
    total_extra_cost,
    total_ht,
    zone_summaries,
    line_items,
    rendered,             \* per zone, what the pass computed and showed per line
    pdf                   \* the PDF built in the last pass, if a button was clicked

parseVars == <<value, result>>
inputs    == <<distance, extra_global, lines, tva_simple, tva_pro>>
outputs   == <<travel_cost, total_material_cost, total_extra_cost, total_ht,
               zone_summaries, line_items, rendered>>
vars      == <<value, result, distance, extra_global, lines, tva_simple, tva_pro,
               travel_cost, total_material_cost, total_extra_cost, total_ht,
               zone_summaries, line_items, rendered, pdf>>

---------------------------------------------------------------------------
(* Bounds of the model *)

\* longest text enumerated exhaustively as input of parse_surface_input
MaxLen == 3
\* largest "Nombre de lignes" per zone
MaxLines == 2
\* largest number of lines over all zones together
MaxTotalLines == 2

---------------------------------------------------------------------------
(* Units *)

SurfScale  == 10 ^ MaxLen
MoneyScale == 100 * 100

Euro(n) == n * MoneyScale

\* (a * b) / SurfScale without overflowing 32 bits: both factors are split at
\* SurfScale.  Exact whenever the quotient is a whole number of money units.
Times(a, b) ==
    LET qa == a \div SurfScale
        ra == a % SurfScale
        qb == b \div SurfScale
        rb == b % SurfScale
    IN  a * qb + qa * rb + (ra * rb) \div SurfScale

\* b m2 written in surface units
M2(b) == b * SurfScale

---------------------------------------------------------------------------
(* Text *)

\* a text is written <<"2", "0">> for "20"

None == <<"None">>   \* Python's None: no text holds a multi-character element

DigitChars == <<"0", "1", "2", "3", "4", "5", "6", "7", "8", "9">>
Digits == {DigitChars[i] : i \in 1..10}
DigitValue(c) == (CHOOSE i \in 1..10 : DigitChars[i] = c) - 1
Whitespace == {" "}

IsDigits(s) == \A i \in 1..Len(s) : s[i] \in Digits

RECURSIVE ToInt(_)
ToInt(s) ==
    IF s = <<>> THEN 0
    ELSE ToInt(SubSeq(s, 1, Len(s) - 1)) * 10 + DigitValue(s[Len(s)])

\* str.split(sep): the parts between the separators, empty parts included
RECURSIVE SplitFrom(_, _, _, _)
SplitFrom(s, sep, i, cur) ==
    IF i > Len(s) THEN <<cur>>
    ELSE IF s[i] = sep THEN <<cur>> \o SplitFrom(s, sep, i + 1, <<>>)
    ELSE SplitFrom(s, sep, i + 1, Append(cur, s[i]))

split(s, sep) == SplitFrom(s, sep, 1, <<>>)

RECURSIVE lstrip(_)
lstrip(s) ==
    IF s # <<>> /\ s[1] \in Whitespace THEN lstrip(Tail(s)) ELSE s

RECURSIVE rstrip(_)
rstrip(s) ==
    IF s # <<>> /\ s[Len(s)] \in Whitespace
    THEN rstrip(SubSeq(s, 1, Len(s) - 1)) ELSE s

strip(s) == rstrip(lstrip(s))

replace(s, old, new) == [i \in 1..Len(s) |-> IF s[i] = old THEN new ELSE s[i]]

\* sub in s
Contains(sub, s) ==
    \E i \in 0..(Len(s) - Len(sub)) : SubSeq(s, i + 1, i + Len(sub)) = sub

\* float(s) on the characters the model enumerates: an optional sign, then
\* digits with at most one point and at least one digit.  Anything else is a
\* ValueError.  The value is in surface units.  (Exponents, underscores, "inf"
\* and "nan" need characters outside the enumerated alphabet.)
ValueError == [exc |-> "ValueError", val |-> 0]

FloatParts(neg, ip, fp) ==
    IF IsDigits(ip) /\ IsDigits(fp) /\ Len(ip) + Len(fp) > 0
    THEN [exc |-> "none",
          val |-> (IF neg THEN -1 ELSE 1)
                  * (ToInt(ip) * SurfScale
                     + ToInt(fp) * (SurfScale \div (10 ^ Len(fp))))]
    ELSE ValueError

FloatSplit(neg, body, dots) ==
    IF Cardinality(dots) > 1 THEN ValueError
    ELSE IF dots = {} THEN FloatParts(neg, body, <<>>)
    ELSE FloatParts(neg,
                    SubSeq(body, 1, (CHOOSE i \in dots : TRUE) - 1),
                    SubSeq(body, (CHOOSE i \in dots : TRUE) + 1, Len(body)))

FloatSigned(neg, body) ==
    FloatSplit(neg, body, {i \in 1..Len(body) : body[i] = "."})

FloatStripped(s) ==
    IF s # <<>> /\ s[1] \in {"-", "+"}
    THEN FloatSigned(s[1] = "-", Tail(s))
    ELSE FloatSigned(FALSE, s)

float(s) == FloatStripped(strip(s))

\* the exception classes the except clause of parse_surface_input catches
Caught == {"ValueError"}

\* try: total += float(part) / except ValueError: continue
ParseAdd(acc, f) ==
    IF acc.raised THEN acc
    ELSE IF f.exc = "none" THEN [acc EXCEPT !.total = @ + f.val]
    ELSE IF f.exc \in Caught THEN acc
    ELSE [acc EXCEPT !.raised = TRUE]

\* a loop body that forgets the decimal comma
ParseStepNoComma(acc, part) == ParseAdd(acc, float(strip(part)))

\* one iteration of the for loop of parse_surface_input
ParseStep(acc, part) == ParseAdd(acc, float(replace(strip(part), ",", ".")))

RECURSIVE ParseLoop(_, _, _)
ParseLoop(parts, i, acc) ==
    IF i > Len(parts) THEN acc
    ELSE ParseLoop(parts, i + 1, ParseStep(acc, parts[i]))

\* parse_surface_input(value): [raised, total]; total in surface units
parse_surface_input(v) ==
    IF v = None \/ v = <<>> THEN [raised |-> FALSE, total |-> 0]
    ELSE ParseLoop(split(v, "+"), 1, [raised |-> FALSE, total |-> 0])

---------------------------------------------------------------------------
(* Business data *)

\* RESISTANCES, in dict order (the order run_app walks the zones)
ZoneOrder == <<"Murs", "Rampants", "Combles", "Vide sanitaires",
               "Plafonds de cave", "Sol">>
Zones == {ZoneOrder[k] : k \in 1..Len(ZoneOrder)}

\* minimum resistance per zone, in tenths
RESISTANCES ==
    [z \in Zones |->
        CASE z = "Murs" -> 37
          [] z = "Rampants" -> 62
          [] z = "Combles" -> 70
          [] OTHER -> 30]

\* list(FOAMS.keys()): the options of the foam selectbox, the first the default
FoamOrder == <<"008E (cellules ouvertes)",
               "240PX (cellules fermees Isotrie)",
               "35Z (cellules fermees Synthesia)">>
FoamNames == {FoamOrder[k] : k \in 1..Len(FoamOrder)}

\* lambda in 1/10000 W/m.K, price in cents per cm and m2
FOAMS ==
    [f \in FoamNames |->
        CASE f = FoamOrder[1] ->
                [lambda |-> 370, price |-> 150,
                 allowed_zones |-> {"Murs", "Rampants", "Combles", "Vide sanitaires"}]
          [] f = FoamOrder[2] ->
                [lambda |-> 225, price |-> 380,
                 allowed_zones |-> {"Murs", "Sol", "Plafonds de cave"}]
          [] OTHER ->
                [lambda |-> 270, price |-> 350,
                 allowed_zones |-> {"Murs", "Sol", "Plafonds de cave"}]]

\* the options of both tax selectboxes, the first the default
TvaOrder == << <<"5", ".", "5", " ", "%">>, <<"1", "0", " ", "%">>,
               <<"2", "0", " ", "%">> >>
TvaChoices == {TvaOrder[k] : k \in 1..Len(TvaOrder)}

\* "5 EUR/m2" for cutting and removal on walls
CUT_RATE == 5
\* "1 EUR/km", there and back
KM_RATE == 1
\* default "Cout par menuiserie"
DEFAULT_COST_PER_MENUISERIE == 10

---------------------------------------------------------------------------
(* Utilities *)

\* the relation turned upside down: R / lambda
calculate_thickness_inverse(resistance, lambda_value) == resistance \div lambda_value

\* e = R * lambda; with R in tenths and lambda in 1/10000 the result is in
\* 1/100000 m
calculate_thickness(resistance, lambda_value) == resistance * lambda_value

\* float(f"{x:.2f}") for x >= 0 given in 1/100000: the value in hundredths.
\* The one tie among the catalog's products, 8.325, is the float
\* 8.325000000000001 and goes up.
Format2f(x) == (x + 500) \div 1000

\* value= of the thickness widget of a line, in 1/100 cm
default_thick_cm(zone_name, foam_choice) ==
    Format2f(calculate_thickness(RESISTANCES[zone_name], FOAMS[foam_choice].lambda) * 100)

---------------------------------------------------------------------------
(* run_app: one pass of the script over the widgets' state *)

\* the widgets of a line as Streamlit creates them
DefaultLine(zone_name) ==
    [surface_expr        |-> <<>>,
     foam_choice         |-> FoamOrder[1],
     thickness_cm        |-> default_thick_cm(zone_name, FoamOrder[1]),
     include_cut         |-> TRUE,
     nb_menuiseries      |-> 0,
     cost_per_menuiserie |-> Euro(DEFAULT_COST_PER_MENUISERIE),
     cost_protection     |-> 0,
     cost_sanding_m2     |-> 0,
     cost_cutting_m2     |-> 0]

\* material_cost = cost_per_m2 * surface, cost_per_m2 = thickness_cm * unit_price
MaterialCost(thickness_cm, unit_price, surface) ==
    Times(thickness_cm * unit_price, surface)

\* the extras of a line, by zone
Extras(zone_name, line, surface) ==
    CASE zone_name = "Murs" ->
            (IF line.include_cut /\ surface > 0
             THEN Times(Euro(CUT_RATE), surface) ELSE 0)
            + line.nb_menuiseries * line.cost_per_menuiserie
      [] zone_name = "Sol" ->
            line.cost_protection + Times(line.cost_sanding_m2, surface)
      [] zone_name = "Plafonds de cave" ->
            Times(line.cost_cutting_m2, surface)
      [] OTHER -> 0

\* what the body of the inner loop computes for one line of surface `surface`
LineResult(zone_name, line, surface) ==
    [surface          |-> surface,
     foam_choice      |-> line.foam_choice,
     advisory         |-> zone_name \notin FOAMS[line.foam_choice].allowed_zones,
     default_thick_cm |-> default_thick_cm(zone_name, line.foam_choice),
     thickness_cm     |-> line.thickness_cm,
     material_cost    |-> MaterialCost(line.thickness_cm,
                                       FOAMS[line.foam_choice].price, surface),
     extras           |-> Extras(zone_name, line, surface)]

LineCompute(zone_name, line) ==
    LineResult(zone_name, line, parse_surface_input(line.surface_expr).total)

\* a filter that only drops the empty lines
ShouldEmitNonZero(surface) == surface # 0

\* "if surface > 0": the line is shown, summarised and appended to line_items
ShouldEmit(surface) == surface > 0

\* locals that outlive the pass: the last pass's values
InitTotalsCarried ==
    [total_material_cost |-> total_material_cost,
     total_extra_cost    |-> total_extra_cost,
     zone_summaries      |-> zone_summaries,
     line_items          |-> line_items,
     rendered            |-> [z \in Zones |-> <<>>]]

\* the locals run_app starts every pass with
InitTotals ==
    [total_material_cost |-> 0,
     total_extra_cost    |-> 0,
     zone_summaries      |-> <<>>,
     line_items          |-> <<>>,
     rendered            |-> [z \in Zones |-> <<>>]]

\* running totals moved under "if surface > 0"
AccumulateShown(acc, zone_name, i, c) ==
    IF c.surface > 0
    THEN [total_material_cost |-> acc.total_material_cost + c.material_cost,
          total_extra_cost    |-> acc.total_extra_cost + c.extras,
          zone_summaries      |->
             Append(acc.zone_summaries,
                    [zone |-> zone_name, line |-> i + 1, surface |-> c.surface,
                     thickness_cm |-> c.thickness_cm, foam |-> c.foam_choice,
                     material_cost |-> c.material_cost, extras |-> c.extras]),
          line_items          |->
             Append(acc.line_items,
                    <<zone_name, c.surface, c.foam_choice, c.thickness_cm,
                      c.material_cost, c.extras>>),
          rendered            |-> [acc.rendered EXCEPT ![zone_name] = Append(@, c)]]
    ELSE [acc EXCEPT !.rendered[zone_name] = Append(@, c)]

\* the end of the inner loop's body: the running totals, then the records
Accumulate(acc, zone_name, i, c) ==
    LET emit == ShouldEmit(c.surface)
    IN  [total_material_cost |-> acc.total_material_cost + c.material_cost,
         total_extra_cost    |-> acc.total_extra_cost + c.extras,
         zone_summaries      |->
            IF emit
            THEN Append(acc.zone_summaries,
                        [zone |-> zone_name, line |-> i + 1, surface |-> c.surface,
                         thickness_cm |-> c.thickness_cm, foam |-> c.foam_choice,
                         material_cost |-> c.material_cost, extras |-> c.extras])
            ELSE acc.zone_summaries,
         line_items          |->
            IF emit
            THEN Append(acc.line_items,
                        <<zone_name, c.surface, c.foam_choice, c.thickness_cm,
                          c.material_cost, c.extras>>)
            ELSE acc.line_items,
         rendered            |->
            [acc.rendered EXCEPT ![zone_name] = Append(@, c)]]

\* for i in range(int(nb))
RECURSIVE LineLoop(_, _, _, _)
LineLoop(zone_name, ls, i, acc) ==
    IF i >= Len(ls) THEN acc
    ELSE LineLoop(zone_name, ls, i + 1,
                  Accumulate(acc, zone_name, i, LineCompute(zone_name, ls[i + 1])))

\* for zone_name, r_min in RESISTANCES.items()
RECURSIVE ZoneLoop(_, _, _)
ZoneLoop(ls, k, acc) ==
    IF k > Len(ZoneOrder) THEN acc
    ELSE ZoneLoop(ls, k + 1, LineLoop(ZoneOrder[k], ls[ZoneOrder[k]], 0, acc))

TravelCost(d) == Euro(d * 2 * KM_RATE)

TotalHT(material, extra, travel, global) == material + extra + travel + global

\* the locals at the end of a pass
Finish(acc, tc, global) ==
    [travel_cost         |-> tc,
     total_material_cost |-> acc.total_material_cost,
     total_extra_cost    |-> acc.total_extra_cost,
     total_ht            |-> TotalHT(acc.total_material_cost,
                                     acc.total_extra_cost, tc, global),
     zone_summaries      |-> acc.zone_summaries,
     line_items          |-> acc.line_items,
     rendered            |-> acc.rendered]

\* a pass over distance d, global charge g and lines ls
RunApp(d, g, ls) == Finish(ZoneLoop(ls, 1, InitTotals), TravelCost(d), Euro(g))

---------------------------------------------------------------------------
(* PDF generation *)

\* a lookup that tests "0" where the code tests "10"
tva_rate_from_choice_loose(choice) ==
    IF Contains(<<"5", ".", "5">>, choice) THEN 55
    ELSE IF Contains(<<"0">>, choice) THEN 100
    ELSE 200

\* _tva_rate_from_choice, in thousandths
tva_rate_from_choice(choice) ==
    IF Contains(<<"5", ".", "5">>, choice) THEN 55
    ELSE IF Contains(<<"1", "0">>, choice) THEN 100
    ELSE 200

\* x * rate / 1000 as [units, mills], the factor split at 1000
TimesRate(x, rate) ==
    LET q == x \div 1000
        r == x % 1000
    IN  [units |-> q * rate + (r * rate) \div 1000, mills |-> (r * rate) % 1000]

PlusMilli(x, m) == [units |-> x + m.units, mills |-> m.mills]

\* the lines of build_pdf_simple and build_pdf_pro that compute: the totals
\* tuple is unpacked, the rate looked up, the tax and the total derived; one
\* row is drawn per line item
PdfOf(kind, items, ht, tva_choice, tva_rate, tva_amount) ==
    [kind       |-> kind,
     rows       |-> items,
     tva_choice |-> tva_choice,
     tva_rate   |-> tva_rate,
     total_ht   |-> ht,
     tva_amount |-> tva_amount,
     total_ttc  |-> PlusMilli(ht, tva_amount)]

BuildPdf(kind, items, totals, tva_choice) ==
    PdfOf(kind, items, totals[5], tva_choice, tva_rate_from_choice(tva_choice),
          TimesRate(totals[5], tva_rate_from_choice(tva_choice)))

build_pdf_simple(items, totals, tva_choice) == BuildPdf("simple", items, totals, tva_choice)

build_pdf_pro(items, totals, tva_choice) == BuildPdf("pro", items, totals, tva_choice)

NoPdf == [kind |-> "none"]

---------------------------------------------------------------------------
(* Inputs the model enumerates *)

\* one-way distances, km
Distances == {0, 10}
\* global protections charges, EUR
ExtraGlobals == {0, 15}

\* surface texts typed in the form: nothing, an area, a negative number
FormSurfaces == { <<>>, <<"2", "0">>, <<"-", "5">> }
\* "Nb menuiseries a proteger"
FormMenuiseries == {0, 2}
\* "Protection bas de murs & fenetres", EUR
FormProtections == {0, 30}

\* a single line in full: every widget of the line
LineSurfaces == FormSurfaces \cup
    { <<"0">>, <<"2", "0", ",", "5", "+", "4">>, <<"a", "b", "c", "+", "5">> }
LineThicknesses(zone_name, foam_choice) ==
    {0, 1000, default_thick_cm(zone_name, foam_choice)}
LineCostsPerMenuiserie == {Euro(DEFAULT_COST_PER_MENUISERIE), Euro(25)}
LineSandings == {0, Euro(2)}
LineCuttings == {0, Euro(3)}

\* texts handed to parse_surface_input
Alphabet == {"0", "2", "5", "+", ",", ".", " ", "-", "a"}
Texts(n) == UNION {[1..k -> Alphabet] : k \in 0..n}
ExampleTexts ==
    { <<"2", "0", "+", "1", "0", "+", "5">>,
      <<"2", "0", ",", "5", "+", "4">>,
      <<"a", "b", "c", "+", "5">>,
      <<"+", "+", "+", "+">>,
      <<" ", "7", " ", "+", " ", "-", "2", ",", "5">> }
ParseInputs == {None} \cup Texts(MaxLen) \cup ExampleTexts

\* totals tuples handed to the PDF builders, EUR
PdfMaterials == {0, 100, 400}
PdfExtras    == {0, 120}
PdfTravels   == {0, 20}
PdfGlobals   == {0, 15}

---------------------------------------------------------------------------
(* The form: every input event reruns run_app from the top.  The two tax    *)
(* selectboxes keep their first option here; SpecPdf below hands every     *)
(* option to the builders.                                                 *)

NotCalled == [called |-> FALSE]

NoLines == [z \in Zones |-> <<>>]

RECURSIVE TotalLinesFrom(_, _)
TotalLinesFrom(ls, k) ==
    IF k > Len(ZoneOrder) THEN 0
    ELSE Len(ls[ZoneOrder[k]]) + TotalLinesFrom(ls, k + 1)

TotalLines(ls) == TotalLinesFrom(ls, 1)

\* the locals of the pass over the widgets' new state
Pass(d, g, ls) ==
    \E out \in {RunApp(d, g, ls)} :
        /\ travel_cost' = out.travel_cost
        /\ total_material_cost' = out.total_material_cost
        /\ total_extra_cost' = out.total_extra_cost
        /\ total_ht' = out.total_ht
        /\ zone_summaries' = out.zone_summaries
        /\ line_items' = out.line_items
        /\ rendered' = out.rendered

Init ==
    /\ value = None
    /\ result = NotCalled
    /\ distance = 0
    /\ extra_global = 0
    /\ lines = NoLines
    /\ tva_simple = TvaOrder[1]
    /\ tva_pro = TvaOrder[1]
    /\ travel_cost = 0
    /\ total_material_cost = 0
    /\ total_extra_cost = 0
    /\ total_ht = 0
    /\ zone_summaries = <<>>
    /\ line_items = <<>>
    /\ rendered = NoLines
    /\ pdf = NoPdf

SetDistance(d) ==
    /\ d # distance
    /\ distance' = d
    /\ Pass(d, extra_global, lines)
    /\ pdf' = NoPdf
    /\ UNCHANGED <<parseVars, extra_global, lines, tva_simple, tva_pro>>

SetExtraGlobal(g) ==
    /\ g # extra_global
    /\ extra_global' = g
    /\ Pass(distance, g, lines)
    /\ pdf' = NoPdf
    /\ UNCHANGED <<parseVars, distance, lines, tva_simple, tva_pro>>

\* "Nombre de lignes pour <zone>": lines past the number lose their widgets,
\* new lines get fresh ones
SetNb(z, n) ==
    LET old == lines[z]
        new == [i \in 1..n |-> IF i <= Len(old) THEN old[i] ELSE DefaultLine(z)]
        ls  == [lines EXCEPT ![z] = new]
    IN  /\ n # Len(old)
        /\ TotalLines(ls) <= MaxTotalLines
        /\ lines' = ls
        /\ Pass(distance, extra_global, ls)
        /\ pdf' = NoPdf
        /\ UNCHANGED <<parseVars, distance, extra_global, tva_simple, tva_pro>>

EditLine(z, i, line) ==
    LET ls == [lines EXCEPT ![z][i] = line]
    IN  /\ line # lines[z][i]
        /\ lines' = ls
        /\ Pass(distance, extra_global, ls)
        /\ pdf' = NoPdf
        /\ UNCHANGED <<parseVars, distance, extra_global, tva_simple, tva_pro>>

SetSurface(z, i, s) ==
    /\ i \in 1..Len(lines[z])
    /\ EditLine(z, i, [lines[z][i] EXCEPT !.surface_expr = s])

SetMenuiseries(i, n) ==
    /\ i \in 1..Len(lines["Murs"])
    /\ EditLine("Murs", i, [lines["Murs"][i] EXCEPT !.nb_menuiseries = n])

SetProtection(i, c) ==
    /\ i \in 1..Len(lines["Sol"])
    /\ EditLine("Sol", i, [lines["Sol"][i] EXCEPT !.cost_protection = Euro(c)])

\* the totals tuple handed to the builders
Totals(material, extra, travel, global, ht) == <<material, extra, travel, global, ht>>

\* the button "Export PDF simple": a pass with the button down
ExportSimple ==
    /\ Pass(distance, extra_global, lines)
    /\ pdf' = build_pdf_simple(line_items',
                               Totals(total_material_cost', total_extra_cost',
                                      travel_cost', Euro(extra_global), total_ht'),
                               tva_simple)
    /\ UNCHANGED <<parseVars, inputs>>

\* the button "Export PDF pro"
ExportPro ==
    /\ Pass(distance, extra_global, lines)
    /\ pdf' = build_pdf_pro(line_items',
                            Totals(total_material_cost', total_extra_cost',
                                   travel_cost', Euro(extra_global), total_ht'),
                            tva_pro)
    /\ UNCHANGED <<parseVars, inputs>>

\* any other rerun: a download, a client field, a manual rerun
Rerun ==
    /\ Pass(distance, extra_global, lines)
    /\ pdf' = NoPdf
    /\ UNCHANGED <<parseVars, inputs>>

Next ==
    \/ \E d \in Distances : SetDistance(d)
    \/ \E g \in ExtraGlobals : SetExtraGlobal(g)
    \/ \E z \in Zones : \E n \in 0..MaxLines : SetNb(z, n)
    \/ \E z \in Zones : \E i \in 1..MaxLines : \E s \in FormSurfaces : SetSurface(z, i, s)
    \/ \E i \in 1..MaxLines : \E n \in FormMenuiseries : SetMenuiseries(i, n)
    \/ \E i \in 1..MaxLines : \E c \in FormProtections : SetProtection(i, c)
    \/ ExportSimple
    \/ ExportPro
    \/ Rerun

Spec == Init /\ [][Next]_vars

---------------------------------------------------------------------------
(* One line with every widget of the line drawn, before and after its pass *)

InitLine ==
    /\ value = None
    /\ result = NotCalled
    /\ distance \in Distances
    /\ extra_global \in ExtraGlobals
    /\ \E z \in Zones, s \in LineSurfaces, f \in FoamNames :
       \E t \in LineThicknesses(z, f) :
       \E cut \in (IF z = "Murs" THEN BOOLEAN ELSE {TRUE}) :
       \E nb \in (IF z = "Murs" THEN FormMenuiseries ELSE {0}) :
       \E cpm \in (IF z = "Murs" THEN LineCostsPerMenuiserie
                                 ELSE {Euro(DEFAULT_COST_PER_MENUISERIE)}) :
       \E prot \in (IF z = "Sol" THEN FormProtections ELSE {0}) :
       \E sand \in (IF z = "Sol" THEN LineSandings ELSE {0}) :
       \E cave \in (IF z = "Plafonds de cave" THEN LineCuttings ELSE {0}) :
          lines = [NoLines EXCEPT ![z] =
                     << [surface_expr        |-> s,
                         foam_choice         |-> f,
                         thickness_cm        |-> t,
                         include_cut         |-> cut,
                         nb_menuiseries      |-> nb,
                         cost_per_menuiserie |-> cpm,
                         cost_protection     |-> Euro(prot),
                         cost_sanding_m2     |-> sand,
                         cost_cutting_m2     |-> cave] >>]
    /\ tva_simple = TvaOrder[1]
    /\ tva_pro = TvaOrder[1]
    /\ travel_cost = 0
    /\ total_material_cost = 0
    /\ total_extra_cost = 0
    /\ total_ht = 0
    /\ zone_summaries = <<>>
    /\ line_items = <<>>
    /\ rendered = NoLines
    /\ pdf = NoPdf

NextLine == Rerun

SpecLine == InitLine /\ [][NextLine]_vars

---------------------------------------------------------------------------
(* The PDF builders as functions of their arguments *)

InitPdf ==
    /\ value = None
    /\ result = NotCalled
    /\ distance = 0
    /\ extra_global \in PdfGlobals
    /\ lines = NoLines
    /\ tva_simple \in TvaChoices
    /\ tva_pro \in TvaChoices
    /\ travel_cost \in {Euro(t) : t \in PdfTravels}
    /\ total_material_cost \in {Euro(m) : m \in PdfMaterials}
    /\ total_extra_cost \in {Euro(e) : e \in PdfExtras}
    /\ total_ht = TotalHT(total_material_cost, total_extra_cost, travel_cost,
                          Euro(extra_global))
    /\ zone_summaries = <<>>
    /\ line_items = <<>>
    /\ rendered = NoLines
    /\ pdf = NoPdf

CallBuildPdfSimple ==
    /\ pdf' = build_pdf_simple(line_items,
                               Totals(total_material_cost, total_extra_cost,
                                      travel_cost, Euro(extra_global), total_ht),
                               tva_simple)
    /\ UNCHANGED <<parseVars, inputs, outputs>>

CallBuildPdfPro ==
    /\ pdf' = build_pdf_pro(line_items,
                            Totals(total_material_cost, total_extra_cost,
                                   travel_cost, Euro(extra_global), total_ht),
                            tva_pro)
    /\ UNCHANGED <<parseVars, inputs, outputs>>

NextPdf == CallBuildPdfSimple \/ CallBuildPdfPro

SpecPdf == InitPdf /\ [][NextPdf]_vars

---------------------------------------------------------------------------
(* parse_surface_input as a function of its argument *)

InitParse ==
    /\ value \in ParseInputs
    /\ result = NotCalled
    /\ distance = 0
    /\ extra_global = 0
    /\ lines = NoLines
    /\ tva_simple = TvaOrder[1]
    /\ tva_pro = TvaOrder[1]
    /\ travel_cost = 0
    /\ total_material_cost = 0
    /\ total_extra_cost = 0
    /\ total_ht = 0
    /\ zone_summaries = <<>>
    /\ line_items = <<>>
    /\ rendered = NoLines
    /\ pdf = NoPdf

CallParse ==
    /\ ~result.called
    /\ \E r \in {parse_surface_input(value)} :
          result' = [called |-> TRUE, raised |-> r.raised, total |-> r.total]
    /\ UNCHANGED <<value, inputs, outputs, pdf>>

NextParse == CallParse

SpecParse == InitParse /\ [][NextParse]_vars

---------------------------------------------------------------------------
(* Properties *)

RECURSIVE SumSeq(_)
SumSeq(s) == IF s = <<>> THEN 0 ELSE s[1] + SumSeq(Tail(s))

\* the lines the last pass went over, as <<zone rank, line index>>
Rendered ==
    {p \in (1..Len(ZoneOrder)) \X (1..MaxLines) :
        p[2] <= Len(rendered[ZoneOrder[p[1]]])}
RenderedAt(p) == rendered[ZoneOrder[p[1]]][p[2]]

\* every entered line was rendered by the last pass
Ran == \A z \in Zones : Len(rendered[z]) = Len(lines[z])

RenderedMaterial ==
    SumSeq([k \in 1..Len(ZoneOrder) |->
        SumSeq([i \in 1..Len(rendered[ZoneOrder[k]]) |->
            rendered[ZoneOrder[k]][i].material_cost])])

RenderedExtras ==
    SumSeq([k \in 1..Len(ZoneOrder) |->
        SumSeq([i \in 1..Len(rendered[ZoneOrder[k]]) |->
            rendered[ZoneOrder[k]][i].extras])])

\* C1: after every pass, over any number of lines in any zones, total_ht is
\* the material costs of all entered lines plus their extras plus the travel
\* cost plus the global charge, the travel cost being distance * 2 * 1.
C1_SubtotalIsSum ==
    /\ Ran
    /\ travel_cost = Euro(distance * 2 * 1)
    /\ total_ht = RenderedMaterial + RenderedExtras + travel_cost + Euro(extra_global)

C1_Witness ==
    /\ TotalLines(lines) >= 2
    /\ distance > 0
    /\ extra_global > 0
    /\ RenderedMaterial > 0
    /\ RenderedExtras > 0
    /\ \E p \in Rendered : RenderedAt(p).surface <= 0 /\ RenderedAt(p).extras > 0

\* the rate each option of the tax menu stands for, in thousandths
MenuRate(choice) ==
    CASE choice = <<"5", ".", "5", " ", "%">> -> 55
      [] choice = <<"1", "0", " ", "%">> -> 100
      [] choice = <<"2", "0", " ", "%">> -> 200

\* C2: for each option of the tax menu the rate is 0.055, 0.10, 0.20, and both
\* builders compute tax = total_ht * rate and total = total_ht + tax; 555.0 at
\* 20 % gives 111.0 and 666.0.
C2_TaxAndTotal ==
    pdf.kind # "none" =>
        /\ pdf.tva_choice = (IF pdf.kind = "simple" THEN tva_simple ELSE tva_pro)
        /\ pdf.tva_rate = MenuRate(pdf.tva_choice)
        /\ pdf.total_ht = total_ht
        /\ pdf.tva_amount.mills \in 0..999
        /\ pdf.tva_amount.units * 1000 + pdf.tva_amount.mills = total_ht * pdf.tva_rate
        /\ pdf.total_ttc.units = total_ht + pdf.tva_amount.units
        /\ pdf.total_ttc.mills = pdf.tva_amount.mills
        /\ (total_ht = Euro(555) /\ pdf.tva_choice = <<"2", "0", " ", "%">>) =>
              /\ pdf.tva_amount = [units |-> Euro(111), mills |-> 0]
              /\ pdf.total_ttc = [units |-> Euro(666), mills |-> 0]

C2_Witness ==
    /\ pdf.kind = "pro"
    /\ total_ht = Euro(555)
    /\ pdf.tva_choice = <<"2", "0", " ", "%">>
    /\ pdf.total_ttc.units = Euro(666)

ItemsSum(items) ==
    SumSeq([j \in 1..Len(items) |-> items[j][5] + items[j][6]])

\* C3: in every pass the totals handed out with the line items agree with
\* them: total_ht is the sum over the emitted line_items of material cost plus
\* extras, plus the travel cost and the global charge.
C3_TotalsMatchItems ==
    /\ total_ht = ItemsSum(line_items) + travel_cost + Euro(extra_global)
    /\ pdf.kind # "none" =>
          pdf.total_ht = ItemsSum(pdf.rows) + travel_cost + Euro(extra_global)

\* C4: if every entered line has surface 0, the distance is 0 and the global
\* charge is 0, then whatever the other inputs of the lines, total_ht, the tax
\* and the tax-inclusive total are 0.
C4_AllZero ==
    (/\ Ran
     /\ \A p \in Rendered : RenderedAt(p).surface = 0
     /\ distance = 0
     /\ extra_global = 0)
    => /\ total_ht = 0
       /\ pdf.kind # "none" =>
             /\ pdf.tva_amount = [units |-> 0, mills |-> 0]
             /\ pdf.total_ttc = [units |-> 0, mills |-> 0]

\* C5: whatever surface text is typed, the material cost and the extras of
\* every line are non-negative, and so are the three totals.
C5_NonNegative ==
    /\ \A p \in Rendered :
          RenderedAt(p).material_cost >= 0 /\ RenderedAt(p).extras >= 0
    /\ total_material_cost >= 0
    /\ total_extra_cost >= 0
    /\ total_ht >= 0

\* the extras the claim gives a line of zone z with widgets w and surface s
ClaimedExtras(z, w, s) ==
    CASE z = "Murs" ->
            (IF w.include_cut THEN Times(Euro(5), s) ELSE 0)
            + w.nb_menuiseries * w.cost_per_menuiserie
      [] z = "Sol" -> w.cost_protection + Times(w.cost_sanding_m2, s)
      [] z = "Plafonds de cave" -> Times(w.cost_cutting_m2, s)
      [] OTHER -> 0

\* C6: the extras of a line depend on its zone: walls, 5 * surface if the
\* surcharge is enabled, plus openings * cost per opening; floor, the flat
\* protection plus sanding rate * surface; cellar ceiling, cutting rate *
\* surface; any other zone, 0.  A wall of 20 m2 at 10 cm and 1.50, surcharge
\* enabled, 2 openings at 10: material 300, extras 120.
C6_ExtrasByZone ==
    Ran =>
        \A p \in Rendered :
            LET z == ZoneOrder[p[1]]
                w == lines[z][p[2]]
                r == RenderedAt(p)
            IN  /\ r.extras = ClaimedExtras(z, w, r.surface)
                /\ (/\ z = "Murs" /\ r.surface = M2(20) /\ w.thickness_cm = 1000
                    /\ w.foam_choice = FoamOrder[1] /\ w.include_cut
                    /\ w.nb_menuiseries = 2 /\ w.cost_per_menuiserie = Euro(10))
                   => /\ r.material_cost = Euro(300)
                      /\ r.extras = Euro(120)

\* the lines the last pass found with a surface above 0
Shown == {p \in Rendered : RenderedAt(p).surface > 0}
Before(q, p) == q[1] < p[1] \/ (q[1] = p[1] /\ q[2] < p[2])
Position(p) == 1 + Cardinality({q \in Shown : Before(q, p)})
ItemOf(p) ==
    <<ZoneOrder[p[1]], RenderedAt(p).surface, RenderedAt(p).foam_choice,
      RenderedAt(p).thickness_cm, RenderedAt(p).material_cost, RenderedAt(p).extras>>

\* C7: line_items and the summary list hold exactly one record per entered
\* line with surface > 0 and none for the others, in zone order then line
\* order; a line left out still adds its material cost and extras to the
\* running totals.
C7_ItemsAreShownLines ==
    /\ Ran
    /\ \A p \in Rendered :
          RenderedAt(p).surface =
             parse_surface_input(lines[ZoneOrder[p[1]]][p[2]].surface_expr).total
    /\ Len(line_items) = Cardinality(Shown)
    /\ Len(zone_summaries) = Cardinality(Shown)
    /\ \A p \in Shown :
          /\ line_items[Position(p)] = ItemOf(p)
          /\ zone_summaries[Position(p)].zone = ZoneOrder[p[1]]
          /\ zone_summaries[Position(p)].line = p[2]
    /\ total_material_cost = RenderedMaterial
    /\ total_extra_cost = RenderedExtras

C7_Witness ==
    /\ Len(rendered["Murs"]) = 2
    /\ rendered["Murs"][1].surface = 0
    /\ rendered["Murs"][1].extras > 0
    /\ rendered["Murs"][2].surface > 0
    /\ Len(line_items) = 1
    /\ total_extra_cost > line_items[1][6]

\* the segments of a text: what lies between two neighbouring separators
Separators(v) == {0, Len(v) + 1} \cup {i \in 1..Len(v) : v[i] = "+"}
Segments(v) ==
    {seg \in Separators(v) \X Separators(v) :
        /\ seg[1] < seg[2]
        /\ ~ \E c \in Separators(v) : seg[1] < c /\ c < seg[2]}
SegmentText(v, seg) == SubSeq(v, seg[1] + 1, seg[2] - 1)

Trimmed(t) ==
    LET inked == {i \in 1..Len(t) : t[i] # " "}
    IN  IF inked = {} THEN <<>>
        ELSE SubSeq(t, CHOOSE i \in inked : \A j \in inked : i <= j,
                       CHOOSE i \in inked : \A j \in inked : j <= i)

Unsigned(t) == IF t # <<>> /\ t[1] \in {"-", "+"} THEN Tail(t) ELSE t

\* t is a decimal number: digits around at most one point, at least one digit
IsNumber(t) ==
    LET b == Unsigned(t)
    IN  /\ \A i \in 1..Len(b) : b[i] \in Digits \cup {".", ","}
        /\ Cardinality({i \in 1..Len(b) : b[i] \in {".", ","}}) <= 1
        /\ \E i \in 1..Len(b) : b[i] \in Digits

\* its value by place, in surface units
NumberValue(t) ==
    LET b  == Unsigned(t)
        pt == IF \E i \in 1..Len(b) : b[i] \in {".", ","}
              THEN CHOOSE i \in 1..Len(b) : b[i] \in {".", ","}
              ELSE Len(b) + 1
        place(i) ==
            IF i < pt THEN DigitValue(b[i]) * (10 ^ (pt - 1 - i)) * SurfScale
            ELSE IF i = pt THEN 0
            ELSE DigitValue(b[i]) * (SurfScale \div (10 ^ (i - pt)))
        mag == SumSeq([i \in 1..Len(b) |-> place(i)])
    IN  IF t[1] = "-" THEN 0 - mag ELSE mag

SegmentValue(t) == IF IsNumber(Trimmed(t)) THEN NumberValue(Trimmed(t)) ELSE 0

RECURSIVE SumSegments(_, _)
SumSegments(v, segs) ==
    IF segs = {} THEN 0
    ELSE LET seg == CHOOSE x \in segs : TRUE
         IN  SegmentValue(SegmentText(v, seg)) + SumSegments(v, segs \ {seg})

\* C8: parse_surface_input never raises; it returns the sum of the segments
\* between "+" that are numbers once trimmed and with "," read as ".", the
\* others counting 0; empty, null and separator-only input give 0.0;
\* "20+10+5" gives 35.0, "20,5+4" gives 24.5, "abc+5" gives 5.0.
C8_ParseSumsSegments ==
    result.called =>
        /\ ~result.raised
        /\ (value = None \/ value = <<>>) => result.total = 0
        /\ (value # None) => result.total = SumSegments(value, Segments(value))
        /\ (value # None /\ \A i \in 1..Len(value) : value[i] = "+") => result.total = 0
        /\ value = <<"2", "0", "+", "1", "0", "+", "5">> => result.total = M2(35)
        /\ value = <<"2", "0", ",", "5", "+", "4">> => result.total * 10 = M2(245)
        /\ value = <<"a", "b", "c", "+", "5">> => result.total = M2(5)

C8_Witness ==
    /\ result.called
    /\ value = <<"2", "0", ",", "5", "+", "4">>
    /\ result.total * 10 = M2(245)

\* C9: what a pass produces depends only on the inputs current at that pass:
\* a pass over unchanged inputs yields the same totals and line items, nothing
\* of an earlier pass accumulates into a later one.
C9_NoCarryOver ==
    [][(distance' = distance /\ extra_global' = extra_global /\ lines' = lines)
          => outputs' = outputs]_vars

C9_Witness ==
    /\ pdf.kind # "none"
    /\ TotalLines(lines) >= 2
    /\ Len(line_items) >= 1
    /\ total_material_cost > 0
    /\ total_extra_cost > 0

\* C10 as stated: calculate_thickness(3.7, 0.037) is 0.137 m, so a wall line
\* with the 008E foam is offered 13.7 cm.
C10_Original ==
    \A i \in 1..Len(rendered["Murs"]) :
        rendered["Murs"][i].foam_choice = FoamOrder[1]
            => rendered["Murs"][i].default_thick_cm = 1370

\* C10 as amended: the thickness offered to a line is resistance * lambda of
\* its zone and foam, in centimetres to two decimals; for a wall with the
\* 008E foam that is 3.7 * 0.037 = 0.1369 m, 13.69 cm.
C10_DefaultThickness ==
    \A p \in Rendered :
        LET z == ZoneOrder[p[1]]
            r == RenderedAt(p)
            exact == RESISTANCES[z] * FOAMS[r.foam_choice].lambda * 100
        IN  /\ r.default_thick_cm * 1000 - exact \in -500..500
            /\ (z = "Murs" /\ r.foam_choice = FoamOrder[1])
                  => r.default_thick_cm = 1369

C10_Witness ==
    /\ Len(rendered["Murs"]) = 1
    /\ rendered["Murs"][1].foam_choice = FoamOrder[1]
    /\ rendered["Murs"][1].default_thick_cm = 1369

====
